---- MODULE Spec2Model ----
(***************************************************************************)
(* Model of the simulated-trading ledger: the Order Execution Gate         *)
(* (web_server.py, trade), the ledger store (database.py, DB) and the      *)
(* start-up schema migration (database.py, DB.__init__ / DB._migrate).     *)
(*                                                                         *)
(* Money is kept in 1/Scale currency units so that the fee factor 1.001    *)
(* (FeeNum / Scale) is exact; Python floats are modelled as exact, finite  *)
(* numbers (no rounding, no NaN, no infinity).                             *)
(* An Optional value is a sequence of length <= 1: <<>> is Python's None.  *)
(* A table is the sequence of its rows in insertion order; .first() is the *)
(* matching row that was inserted first.                                   *)
(*                                                                         *)
(* Three specifications share the variables: Spec (the gate, the matcher   *)
(* and the market on a ledger that holds one user), SpecUser (concurrent   *)
(* callers of get_or_create_user) and SpecMig (DB construction on database *)
(* files of earlier schema versions, with statements that may fail).       *)
(* Market (market.py) is not part of the sources modelled here: what the   *)
(* gate reads of it is state, what it does is modelled from its contract.  *)
(***************************************************************************)
EXTENDS Integers, Sequences, FiniteSets, TLC

VARIABLES
    users,        \* table users: sequence of rows [user_id, password_hash, balance]
    holdings,     \* table user_holdings: sequence of rows [id, user_id, symbol, amount]
    orders,       \* table orders: sequence of rows, orders[i].id = i
    marketOpen,   \* Market.is_open
    req,          \* the trade handler in flight: [pc, user_id, data, code, detail, need,
                  \*                               order_id]
    matchCalls,   \* order ids the gate has passed to Market.match_single_order
    goc,          \* get_or_create_user callers: caller -> [pc, uid, created, ret]
    schema,       \* live database schema: [tables, cols, idx]
    mig,          \* DB construction: [pc, k, run, failed, inspectFailed, altered, start,
                  \*                   prevClean, faults, injected, session]
    history,      \* table market_history: sequence of rows
    board,        \* a leaderboard request: [pc, users, holdings, prices, top_n,
                  \*                         entries, fmt_top_n, lines]
    cool,         \* a call of cooldown_allow: [pc, last_ts, now_ts, cooldown_seconds, ret]
    dbSessions,   \* database sessions of the operations in progress: [trade, goc]
    sessions,     \* _sessions: token -> user_id
    authLog       \* what the web layer has answered: [issued, loggedOut, last]

ledgerVars == <<users, holdings, orders, marketOpen, req, matchCalls>>
userVars   == <<goc>>
migVars    == <<schema, mig, history>>
boardVars  == <<board>>
coolVars   == <<cool>>
authVars   == <<sessions, authLog>>
vars       == <<users, holdings, orders, marketOpen, req, matchCalls, goc, schema, mig, history,
                board, cool, dbSessions, sessions, authLog>>

----------------------------------------------------------------------------
(* Bounds of the model *)

MaxOrders == 2      \* Order rows the gate may admit in one behaviour

(* Program constants *)

Scale          == 1000     \* 1.001 = FeeNum / Scale
FeeNum         == 1001
DefaultBalance == 10000    \* Column(Float, default=10000.0)

None == <<>>
Some(x) == <<x>>

----------------------------------------------------------------------------
(* External Market collaborator: its readable state *)

MarketSymbols == {"BTC"}                       \* market.symbols
MarketPrices  == [s \in MarketSymbols |-> 4000]  \* market.prices

\* str.upper() on the symbols a request may carry
Upper(s) ==
    CASE s = "btc"  -> "BTC"
      [] s = "Btc"  -> "BTC"
      [] s = "doge" -> "DOGE"
      [] OTHER      -> s

\* Python truthiness of an Optional[float]: None and 0.0 are falsy
Truthy(p) == p # None /\ p[1] # 0

----------------------------------------------------------------------------
(* Ledger store *)

\* User(user_id=...): password_hash nullable, balance default 10000.0
NewUser(uid) == [user_id |-> uid, password_hash |-> None, balance |-> DefaultBalance * Scale]

\* the rows of users with a user_id, and the first of a set of rows
UserIdx(uid) == {i \in DOMAIN users : users[i].user_id = uid}
Lowest(S) == CHOOSE i \in S : \A j \in S : i <= j

\* mutant: a request of a user without a row is checked against a fresh account
QueryUser_OrDefault(uid) ==
    IF UserIdx(uid) = {} THEN Some(NewUser(uid)) ELSE Some(users[Lowest(UserIdx(uid))])

\* session.query(User).filter_by(user_id=uid).first()
QueryUser(uid) ==
    IF UserIdx(uid) = {} THEN None ELSE Some(users[Lowest(UserIdx(uid))])

\* session.query(UserHolding).filter_by(user_id=uid, symbol=sym).first()
HoldingIdx(uid, sym) ==
    {i \in DOMAIN holdings : holdings[i].user_id = uid /\ holdings[i].symbol = sym}
QueryHolding(uid, sym) ==
    IF HoldingIdx(uid, sym) = {} THEN None
    ELSE Some(holdings[Lowest(HoldingIdx(uid, sym))])

\* mutant: the row is written as already settled
NewOrder_Filled(id, uid, symbol, data) ==
    [id         |-> id,
     user_id    |-> uid,
     symbol     |-> symbol,
     order_type |-> IF data.action = "buy" THEN "BUY" ELSE "SELL",
     price      |-> data.price,
     amount     |-> data.amount,
     status     |-> "FILLED"]

\* Order(user_id, symbol, order_type, price, amount): status defaults to PENDING
NewOrder(id, uid, symbol, data) ==
    [id         |-> id,
     user_id    |-> uid,
     symbol     |-> symbol,
     order_type |-> IF data.action = "buy" THEN "BUY" ELSE "SELL",
     price      |-> data.price,
     amount     |-> data.amount,
     status     |-> "PENDING"]

----------------------------------------------------------------------------
(* Order Execution Gate: trade *)

\* HTTPException(status_code, detail) and the 200 answer; need is the amount
\* a detail text carries, in hundredths, when it carries one
Reject(code, detail) == [code |-> code, detail |-> detail, need |-> None]
Admit == [code |-> 200, detail |-> "Order submitted", need |-> None]

\* format(x, ".2f") of an amount kept in 1/Scale units: the nearest hundredth
Fmt2(x) == IF x >= 0 THEN (x + 5) \div 10 ELSE -((5 - x) \div 10)

\* est_price = data.price if data.price else market.prices[symbol]
EstPrice(data, symbol) ==
    IF Truthy(data.price) THEN data.price[1] ELSE MarketPrices[symbol]

\* mutant: the cost of one unit, whatever the amount
EstCost_NoAmount(data, symbol) == EstPrice(data, symbol) * FeeNum

\* cost = est_price * data.amount * 1.001, in 1/Scale units
EstCost(data, symbol) == EstPrice(data, symbol) * data.amount * FeeNum

\* the estimated cost of the PENDING buy orders of a user, summed
RECURSIVE PendingBuyCostUpTo(_, _)
PendingBuyCostUpTo(uid, n) ==
    IF n = 0 THEN 0
    ELSE PendingBuyCostUpTo(uid, n - 1) +
         (IF /\ orders[n].user_id = uid
             /\ orders[n].order_type = "BUY"
             /\ orders[n].status = "PENDING"
          THEN EstCost(orders[n], orders[n].symbol)
          ELSE 0)
PendingBuyCost(uid) == PendingBuyCostUpTo(uid, Len(orders))

\* mutant: the funds of the PENDING buy orders are treated as reserved
FundsShort_Reserving(user, data, symbol) ==
    user.balance - PendingBuyCost(user.user_id) < EstCost(data, symbol)

\* line 151: user.balance < cost
FundsShort(user, data, symbol) == user.balance < EstCost(data, symbol)

\* mutant: the text carries the balance of the user
RejectFunds_Balance(user, cost) ==
    [code |-> 400, detail |-> "Insufficient balance", need |-> Some(Fmt2(user.balance))]

\* line 152: detail=f"Insufficient balance. Need {cost:.2f}"
RejectFunds(user, cost) ==
    [code |-> 400, detail |-> "Insufficient balance", need |-> Some(Fmt2(cost))]

\* mutant: any holding row will do, whatever its amount
HoldingShort_ExistsOnly(uid, data, symbol) == QueryHolding(uid, symbol) = None

\* lines 154-155: not holding or holding.amount < data.amount
HoldingShort(uid, data, symbol) ==
    LET holding == QueryHolding(uid, symbol)
    IN  holding = None \/ holding[1].amount < data.amount

\* mutant: the symbol is looked at before the market and the user
TradeCheck_SymbolFirst(uid, data) ==
    LET user   == QueryUser(uid)
        symbol == Upper(data.symbol)
    IN  IF symbol \notin MarketSymbols THEN Reject(400, "Invalid symbol")
        ELSE IF ~marketOpen THEN Reject(400, "Market is closed")
        ELSE IF user = None THEN Reject(404, "User not found")
        ELSE IF data.amount <= 0 THEN Reject(400, "Amount must be positive")
        ELSE IF data.action = "buy"
             THEN IF FundsShort(user[1], data, symbol)
                  THEN RejectFunds(user[1], EstCost(data, symbol))
                  ELSE Admit
        ELSE IF data.action = "sell"
             THEN IF HoldingShort(uid, data, symbol)
                  THEN Reject(400, "Insufficient holding")
                  ELSE Admit
        ELSE Reject(400, "Invalid action")

\* the validation sequence of trade, lines 132-158
TradeCheck(uid, data) ==
    LET user   == QueryUser(uid)
        symbol == Upper(data.symbol)
    IN  IF ~marketOpen THEN Reject(400, "Market is closed")
        ELSE IF user = None THEN Reject(404, "User not found")
        ELSE IF symbol \notin MarketSymbols THEN Reject(400, "Invalid symbol")
        ELSE IF data.amount <= 0 THEN Reject(400, "Amount must be positive")
        ELSE IF data.action = "buy"
             THEN IF FundsShort(user[1], data, symbol)
                  THEN RejectFunds(user[1], EstCost(data, symbol))
                  ELSE Admit
        ELSE IF data.action = "sell"
             THEN IF HoldingShort(uid, data, symbol)
                  THEN Reject(400, "Insufficient holding")
                  ELSE Admit
        ELSE Reject(400, "Invalid action")

NoData == [symbol |-> "", amount |-> 0, price |-> None, action |-> ""]
Idle == [pc |-> "idle", user_id |-> "", data |-> NoData, code |-> 0, detail |-> "",
         need |-> None, order_id |-> 0]

\* requests a client may send
TradeUsers == {"alice", "bob"}
TradeData ==
    [symbol : {"btc", "doge"},
     amount : {-1, 0, 2, 3},
     price  : {None, Some(-1), Some(0), Some(3000)},
     action : {"buy", "sell", "hold"}]

\* mutant: the Order row is added and committed before the request is validated
TradeSubmit_AddsRowFirst(uid, data) ==
    /\ req.pc = "idle"
    /\ Len(orders) < MaxOrders
    /\ LET res == TradeCheck(uid, data)
           id  == Len(orders) + 1
       IN  /\ orders' = Append(orders, NewOrder(id, uid, Upper(data.symbol), data))
           /\ req' = [pc |-> IF res.code = 200 THEN "committed" ELSE "rejected",
                      user_id |-> uid, data |-> data,
                      code |-> res.code, detail |-> res.detail, need |-> res.need,
                      order_id |-> IF res.code = 200 THEN id ELSE 0]
    /\ dbSessions' = [dbSessions EXCEPT !.trade = TRUE]
    /\ UNCHANGED <<users, holdings, marketOpen, matchCalls, goc, schema, mig, history, board,
                   cool, sessions, authLog>>

\* get_db, lines 38-41, has opened the handler's session;
\* trade, lines 132-170: validate, then add and commit the Order row
TradeSubmit(uid, data) ==
    /\ req.pc = "idle"
    /\ Len(orders) < MaxOrders
    /\ LET res == TradeCheck(uid, data)
           id  == Len(orders) + 1
       IN  IF res.code = 200
           THEN /\ orders' = Append(orders, NewOrder(id, uid, Upper(data.symbol), data))
                /\ req' = [pc |-> "committed", user_id |-> uid, data |-> data,
                           code |-> res.code, detail |-> res.detail, need |-> res.need,
                           order_id |-> id]
           ELSE /\ orders' = orders
                /\ req' = [pc |-> "rejected", user_id |-> uid, data |-> data,
                           code |-> res.code, detail |-> res.detail, need |-> res.need,
                           order_id |-> 0]
    /\ dbSessions' = [dbSessions EXCEPT !.trade = TRUE]
    /\ UNCHANGED <<users, holdings, marketOpen, matchCalls, goc, schema, mig, history, board,
                   cool, sessions, authLog>>

\* The external matcher's settlement of one order (Market.match_single_order):
\* a PENDING order stays PENDING, or becomes CANCELLED, or becomes FILLED with
\* the balance and holding adjusted at the market price; an order that is no
\* longer PENDING is left alone.
Settle(oid, outcome) ==
    LET o     == orders[oid]
        u     == QueryUser(o.user_id)
        h     == QueryHolding(o.user_id, o.symbol)
        price == MarketPrices[o.symbol]
    IN  IF o.status # "PENDING" \/ outcome = "pending" \/ u = None
        THEN UNCHANGED <<orders, users, holdings>>
        ELSE IF outcome = "cancel" \/ (o.order_type = "SELL" /\ h = None)
        THEN /\ orders' = [orders EXCEPT ![oid].status = "CANCELLED"]
             /\ UNCHANGED <<users, holdings>>
        ELSE /\ orders' = [orders EXCEPT ![oid].status = "FILLED"]
             /\ IF o.order_type = "BUY"
                THEN /\ users' = [users EXCEPT ![Lowest(UserIdx(o.user_id))].balance =
                                      @ - price * o.amount * FeeNum]
                     /\ holdings' =
                            IF h = None
                            THEN Append(holdings, [id      |-> Len(holdings) + 1,
                                                   user_id |-> o.user_id,
                                                   symbol  |-> o.symbol,
                                                   amount  |-> o.amount])
                            ELSE [holdings EXCEPT ![h[1].id].amount = @ + o.amount]
                ELSE /\ users' = [users EXCEPT ![Lowest(UserIdx(o.user_id))].balance =
                                      @ + price * o.amount * Scale]
                     /\ holdings' = [holdings EXCEPT ![h[1].id].amount = @ - o.amount]

MatchOutcomes == {"pending", "cancel", "fill"}

\* mutant: the handler calls match_single_order twice for the order
TradeMatch_Twice ==
    /\ req.pc = "committed"
    /\ matchCalls' = Append(Append(matchCalls, req.order_id), req.order_id)
    /\ \E outcome \in MatchOutcomes : Settle(req.order_id, outcome)
    /\ req' = [req EXCEPT !.pc = "matched"]
    /\ UNCHANGED <<marketOpen, goc, schema, mig, history, board,
                   cool, dbSessions, sessions, authLog>>

\* trade, line 172: market.match_single_order(order_id)
TradeMatch ==
    /\ req.pc = "committed"
    /\ matchCalls' = Append(matchCalls, req.order_id)
    /\ \E outcome \in MatchOutcomes : Settle(req.order_id, outcome)
    /\ req' = [req EXCEPT !.pc = "matched"]
    /\ UNCHANGED <<marketOpen, goc, schema, mig, history, board,
                   cool, dbSessions, sessions, authLog>>

\* trade, lines 174-180 (refresh and respond), or the HTTPException leaving the
\* handler; get_db, lines 42-44, closes the session in its finally on both
TradeReturn ==
    /\ req.pc \in {"rejected", "matched"}
    /\ req' = Idle
    /\ dbSessions' = [dbSessions EXCEPT !.trade = FALSE]
    /\ UNCHANGED <<users, holdings, orders, marketOpen, matchCalls, goc, schema, mig, history, board,
                   cool, sessions, authLog>>

\* the matcher settling a pending order on its own schedule
MatcherRun ==
    /\ \E oid \in 1..Len(orders) :
          /\ orders[oid].status = "PENDING"
          /\ \E outcome \in {"cancel", "fill"} : Settle(oid, outcome)
    /\ UNCHANGED <<marketOpen, req, matchCalls, goc, schema, mig, history, board,
                   cool, dbSessions, sessions, authLog>>

\* the market opening or closing
MarketToggle ==
    /\ marketOpen' = ~marketOpen
    /\ UNCHANGED <<users, holdings, orders, req, matchCalls, goc, schema, mig, history, board,
                   cool, dbSessions, sessions, authLog>>

----------------------------------------------------------------------------
(* Ledger store: DB.get_or_create_user *)

NumCallers == 2     \* concurrent callers of get_or_create_user
Callers == 1..NumCallers

\* user ids as callers pass them: an int or a str
IntId(n) == [kind |-> "int", n |-> n, s |-> ""]
StrId(s) == [kind |-> "str", n |-> 0, s |-> s]
GocIds == {IntId(7), StrId("7"), StrId("alice")}

Digit == <<"0", "1", "2", "3", "4", "5", "6", "7", "8", "9">>
\* str(user_id)
Str(id) ==
    IF id.kind = "str" THEN id.s
    ELSE IF id.n < 10 THEN Digit[id.n + 1]
    ELSE Digit[(id.n \div 10) + 1] \o Digit[(id.n % 10) + 1]

GocIdle == [pc |-> "idle", uid |-> "", created |-> FALSE, ret |-> None]

\* lines 170-172 (and 176 when the user is found): open a session and query
GocQuery(c, id) ==
    /\ goc[c].pc = "idle"
    /\ LET uid  == Str(id)
           user == QueryUser(uid)
       IN  goc' = [goc EXCEPT ![c] =
                      IF user # None
                      THEN [pc |-> "returned", uid |-> uid, created |-> FALSE, ret |-> user]
                      ELSE [pc |-> "adding", uid |-> uid, created |-> FALSE, ret |-> None]]
    /\ dbSessions' = [dbSessions EXCEPT !.goc[c] = TRUE]
    /\ UNCHANGED <<users, holdings, orders, marketOpen, req, matchCalls, schema, mig, history, board,
                   cool, sessions, authLog>>

\* mutant: user_id is no primary key, every INSERT is accepted
InsertUser_NoPrimaryKey(row) == Some(Append(users, row))

\* INSERT INTO users at commit: user_id is the primary key, so a second row
\* with the same user_id is refused (IntegrityError)
InsertUser(row) ==
    IF UserIdx(row.user_id) = {} THEN Some(Append(users, row)) ELSE None

\* lines 173-176: User(user_id=...), session.add, session.commit, return
GocCommit(c) ==
    /\ goc[c].pc = "adding"
    /\ LET row == NewUser(goc[c].uid)
           ins == InsertUser(row)
       IN  IF ins # None
           THEN /\ users' = ins[1]
                /\ goc' = [goc EXCEPT ![c] = [pc |-> "returned", uid |-> goc[c].uid,
                                              created |-> TRUE, ret |-> Some(row)]]
           ELSE /\ users' = users
                /\ goc' = [goc EXCEPT ![c] = [pc |-> "raised", uid |-> goc[c].uid,
                                              created |-> FALSE, ret |-> None]]
    /\ UNCHANGED <<holdings, orders, marketOpen, req, matchCalls, schema, mig, history, board,
                   cool, dbSessions, sessions, authLog>>

\* the caller takes the result (or the exception) and goes on: the call ends,
\* no line of get_or_create_user having closed the session it made
GocDone(c) ==
    /\ goc[c].pc \in {"returned", "raised"}
    /\ goc' = [goc EXCEPT ![c] = GocIdle]
    /\ dbSessions' = [dbSessions EXCEPT !.goc[c] = FALSE]
    /\ UNCHANGED <<users, holdings, orders, marketOpen, req, matchCalls, schema, mig, history, board,
                   cool, sessions, authLog>>

----------------------------------------------------------------------------
(* Schema and migration layer: DB.__init__ and DB._migrate *)

MaxRuns   == 2      \* runs of _migrate (process starts that get past create_all)
MaxFaults == 8      \* statements the environment makes fail (locked or read-only file)

\* the five entities of Base.metadata
AllTables == {"users", "user_holdings", "market_history", "market_news", "orders"}

Col(t, c) == [table |-> t, column |-> c]
ColName(col) == col.table \o "." \o col.column

\* the columns _migrate adds, in the order it checks them (lines 122-144)
AddedColumns ==
    << Col("orders", "symbol"),
       Col("market_history", "symbol"),
       Col("users", "password_hash") >>
AddedSet == {AddedColumns[k] : k \in DOMAIN AddedColumns}

\* index_definitions, lines 147-153
IndexDefs ==
    << [name |-> "ix_market_history_symbol_ts", table |-> "market_history",
        columns |-> {"symbol", "timestamp"}],
       [name |-> "ix_orders_user_status", table |-> "orders",
        columns |-> {"user_id", "status"}],
       [name |-> "ix_orders_user_created", table |-> "orders",
        columns |-> {"user_id", "created_at"}],
       [name |-> "ix_user_holdings_user_symbol", table |-> "user_holdings",
        columns |-> {"user_id", "symbol"}],
       [name |-> "ix_market_news_timestamp", table |-> "market_news",
        columns |-> {"timestamp"}] >>
IndexNames == {IndexDefs[k].name : k \in DOMAIN IndexDefs}

\* the schema the models declare: every table, every column, and the indexes
CurrentSchema == [tables |-> AllTables, cols |-> AddedSet, idx |-> IndexNames]

\* a column of the live schema: the added ones are tracked, the others have
\* been in their table since it was first created
HasColumn(sch, t, c) ==
    /\ t \in sch.tables
    /\ (Col(t, c) \in AddedSet => Col(t, c) \in sch.cols)

\* Base.metadata.create_all: CREATE TABLE for each missing table, with the
\* columns the model declares now; existing tables are left as they are
CreateAll(sch) ==
    [tables |-> AllTables,
     cols   |-> sch.cols \cup {c \in AddedSet : c.table \notin sch.tables},
     idx    |-> sch.idx]

\* mutant: the row of PRAGMA table_info is compared on the wrong field and never matches
ColumnExists_NeverFound(sch, col, pragmaFails) == FALSE

\* mutant: any row of PRAGMA table_info counts as the column
ColumnExists_AnyColumn(sch, col, pragmaFails) ==
    IF pragmaFails THEN FALSE ELSE col.table \in sch.tables

\* column_exists, lines 112-120: a failing PRAGMA reads as "column absent"
ColumnExists(sch, col, pragmaFails) ==
    IF pragmaFails THEN FALSE ELSE HasColumn(sch, col.table, col.column)

\* ALTER TABLE t ADD COLUMN c: refused if the table is missing or the column
\* is already there, or when the environment fails the statement
AlterRaises(sch, col, envFails) ==
    envFails \/ col.table \notin sch.tables \/ col \in sch.cols

\* CREATE INDEX IF NOT EXISTS name ON t (columns): refused if a column of the
\* index is missing, or when the environment fails the statement
IndexRaises(sch, def, envFails) ==
    envFails \/ \E c \in def.columns : ~HasColumn(sch, def.table, c)

\* a row with one more column
Extend(row, c, v) == [f \in DOMAIN row \cup {c} |-> IF f = c THEN v ELSE row[f]]

\* mutant: the table is rebuilt with the new column and comes back empty
AddColumn_Rebuild(rows, c) == <<>>

\* ALTER TABLE t ADD COLUMN c VARCHAR: the stored rows stay, and the new
\* column, which has no default, reads NULL on each of them
AddColumn(rows, c) ==
    IF rows = <<>> THEN <<>>
    ELSE [i \in DOMAIN rows |-> Extend(rows[i], c, None)]

\* mutant: the exception of a failing statement leaves _migrate
Guarded_Reraise(next, raises) ==
    IF raises THEN [next EXCEPT !.pc = "raised"] ELSE next

\* try: ... except Exception as e: logger.warning(...): a failing statement
\* is logged and _migrate goes on with the step that follows
Guarded(next, raises) == next

MigClosed ==
    [pc |-> "closed", k |-> 0, run |-> 0, failed |-> {}, inspectFailed |-> {},
     altered |-> {}, start |-> CurrentSchema, prevClean |-> FALSE,
     faults |-> 0, injected |-> 0, session |-> FALSE]

Cost(b) == IF b THEN 1 ELSE 0

\* DB(db_path): lines 101-104, a process start on the database file as it is
DbOpen ==
    /\ mig.pc \in {"closed", "open", "raised"}
    /\ mig.run < MaxRuns
    /\ mig' = [mig EXCEPT !.pc = "create_all", !.k = 0,
                          !.failed = {}, !.inspectFailed = {}, !.altered = {},
                          !.start = schema,
                          !.prevClean = (mig.pc = "open" /\ mig.failed = {}),
                          !.injected = 0,
                          !.session = FALSE]
    /\ UNCHANGED <<schema, users, holdings, orders, marketOpen, req, matchCalls, goc, history, board,
                   cool, dbSessions, sessions, authLog>>

\* line 105: create_all; a CREATE TABLE the environment refuses raises out of __init__
DbCreateAll(envFails) ==
    /\ mig.pc = "create_all"
    /\ Cost(envFails) <= mig.faults
    /\ envFails => schema.tables # AllTables
    /\ IF envFails
       THEN /\ schema' = schema
            /\ mig' = [mig EXCEPT !.pc = "raised", !.faults = @ - 1, !.injected = @ + 1]
       ELSE /\ schema' = CreateAll(schema)
            /\ mig' = [mig EXCEPT !.pc = "columns", !.k = 1, !.run = @ + 1]
    /\ UNCHANGED <<users, holdings, orders, marketOpen, req, matchCalls, goc, history, board,
                   cool, dbSessions, sessions, authLog>>

\* lines 122-144: one check-and-add of a column
MigColumn(pragmaFails, alterFails) ==
    /\ mig.pc = "columns"
    /\ LET col    == AddedColumns[mig.k]
           exists == ColumnExists(schema, col, pragmaFails)
           raises == AlterRaises(schema, col, alterFails)
           next   == IF mig.k < Len(AddedColumns)
                     THEN [mig EXCEPT !.k = @ + 1]
                     ELSE [mig EXCEPT !.pc = "indexes", !.k = 1]
       IN  /\ Cost(pragmaFails) + Cost(alterFails) <= mig.faults
           /\ alterFails => ~exists /\ ~AlterRaises(schema, col, FALSE)
           /\ schema' = IF ~exists /\ ~raises
                        THEN [schema EXCEPT !.cols = @ \cup {col}]
                        ELSE schema
           /\ users' = IF ~exists /\ ~raises /\ col.table = "users"
                       THEN AddColumn(users, col.column) ELSE users
           /\ orders' = IF ~exists /\ ~raises /\ col.table = "orders"
                        THEN AddColumn(orders, col.column) ELSE orders
           /\ history' = IF ~exists /\ ~raises /\ col.table = "market_history"
                         THEN AddColumn(history, col.column) ELSE history
           /\ mig' = [Guarded(next, ~exists /\ raises) EXCEPT
                        !.altered = IF exists THEN @ ELSE @ \cup {ColName(col)},
                        !.failed = IF ~exists /\ raises THEN @ \cup {ColName(col)} ELSE @,
                        !.inspectFailed = IF pragmaFails THEN @ \cup {ColName(col)} ELSE @,
                        !.faults = @ - Cost(pragmaFails) - Cost(alterFails),
                        !.injected = @ + Cost(pragmaFails) + Cost(alterFails)]
    /\ UNCHANGED <<holdings, marketOpen, req, matchCalls, goc, board,
                   cool, dbSessions, sessions, authLog>>

\* lines 154-158: one CREATE INDEX IF NOT EXISTS
MigIndex(envFails) ==
    /\ mig.pc = "indexes"
    /\ LET def    == IndexDefs[mig.k]
           raises == IndexRaises(schema, def, envFails)
           next   == IF mig.k < Len(IndexDefs)
                     THEN [mig EXCEPT !.k = @ + 1]
                     ELSE [mig EXCEPT !.pc = "finish", !.k = 0]
       IN  /\ Cost(envFails) <= mig.faults
           /\ envFails => ~IndexRaises(schema, def, FALSE)
           /\ schema' = IF raises THEN schema
                        ELSE [schema EXCEPT !.idx = @ \cup {def.name}]
           /\ mig' = [Guarded(next, raises) EXCEPT
                        !.failed = IF raises THEN @ \cup {def.name} ELSE @,
                        !.faults = @ - Cost(envFails),
                        !.injected = @ + Cost(envFails)]
    /\ UNCHANGED <<users, holdings, orders, marketOpen, req, matchCalls, goc, history, board,
                   cool, dbSessions, sessions, authLog>>

\* lines 160-164: commit what is pending, leave the connection, set self.Session
MigFinish ==
    /\ mig.pc = "finish"
    /\ mig' = [mig EXCEPT !.pc = "open", !.session = TRUE]
    /\ UNCHANGED <<schema, users, holdings, orders, marketOpen, req, matchCalls, goc, history, board,
                   cool, dbSessions, sessions, authLog>>

----------------------------------------------------------------------------
(* Valuation / Leaderboard Engine: leaderboard.py *)

MaxBoardUsers    == 2    \* rows of the balance list handed to compute_leaderboard
MaxBoardHoldings == 2    \* rows of the holdings list

\* Quantities are kept in units of 1/QScale coin, so that the dust threshold
\* 0.0001 is Epsilon units and 0.00005 is one unit; cash and values are kept
\* in units of 1/QScale currency.
QScale  == 20000
Epsilon == 2

Max(a, b) == IF a >= b THEN a ELSE b
Min(a, b) == IF a <= b THEN a ELSE b

\* mutant: only the upper bound is applied
ClampTopN_NoFloor(top_n) == Min(50, top_n)

\* _clamp_top_n: max(1, min(50, int(top_n)))
ClampTopN(top_n) == Max(1, Min(50, top_n))

\* the order of Python str on the ids and symbols of the model (code points:
\* digits before upper case before lower case)
StrOrder == <<"10", "9", "BTC", "XRP", "al">>
StrLess(a, b) ==
    \E i, j \in DOMAIN StrOrder : StrOrder[i] = a /\ StrOrder[j] = b /\ i < j

\* by_user[uid] = {...}, lines 40-46: a dict keeps the position of a key it
\* already has and takes the new value
NewEntry(uid, cash) ==
    [user_id |-> uid, balance |-> cash, holdings_value |-> 0, total |-> cash,
     missing_symbols |-> {}]
DictPut(d, e) ==
    IF \E i \in DOMAIN d : d[i].user_id = e.user_id
    THEN [i \in DOMAIN d |-> IF d[i].user_id = e.user_id THEN e ELSE d[i]]
    ELSE Append(d, e)

\* lines 37-46: the loop over users, after its first n rows
RECURSIVE LoadUsers(_, _)
LoadUsers(us, n) ==
    IF n = 0 THEN <<>>
    ELSE DictPut(LoadUsers(us, n - 1), NewEntry(us[n].user_id, us[n].balance * QScale))

\* mutant: dust is told by >= instead of >
Counts_AtEpsilon(qty) == qty >= Epsilon

\* line 53: a row is skipped if qty <= 0 or abs(qty) <= 0.0001
Counts(qty) == ~(qty <= 0 \/ (IF qty < 0 THEN -qty ELSE qty) <= Epsilon)

\* mutant: an unpriced symbol is not recorded
AddHolding_NoMissing(e, h, prices) ==
    LET price == IF h.symbol \in DOMAIN prices THEN prices[h.symbol] ELSE 0
        hv    == e.holdings_value + h.amount * price
    IN  [e EXCEPT !.holdings_value = hv, !.total = e.balance + hv]

\* lines 56-67: one counted holding row added to the entry of its user
AddHolding(e, h, prices) ==
    LET priced == h.symbol \in DOMAIN prices
        price  == IF priced THEN prices[h.symbol] ELSE 0
        hv     == e.holdings_value + h.amount * price
    IN  [e EXCEPT !.holdings_value = hv,
                  !.total = e.balance + hv,
                  !.missing_symbols = IF priced THEN @ ELSE @ \cup {h.symbol}]

\* lines 48-67: the loop over holdings, after its first n rows
RECURSIVE LoadHoldings(_, _, _, _)
LoadHoldings(d, hs, prices, n) ==
    IF n = 0 THEN d
    ELSE LET prev == LoadHoldings(d, hs, prices, n - 1)
             h    == hs[n]
         IN  IF ~(\E i \in DOMAIN prev : prev[i].user_id = h.user_id) THEN prev
             ELSE IF ~Counts(h.amount) THEN prev
             ELSE [i \in DOMAIN prev |->
                      IF prev[i].user_id = h.user_id
                      THEN AddHolding(prev[i], h, prices) ELSE prev[i]]

\* mutant: the sort key is the cash balance
KeyBefore_ByBalance(a, b) ==
    \/ a.balance > b.balance
    \/ a.balance = b.balance /\ StrLess(a.user_id, b.user_id)

\* line 70: key (-total, user_id), compared as Python compares tuples
KeyBefore(a, b) ==
    \/ a.total > b.total
    \/ a.total = b.total /\ StrLess(a.user_id, b.user_id)

\* list.sort is stable: an entry goes behind every entry whose key is not
\* greater than its own
RECURSIVE SortEntries(_, _)
SortEntries(d, n) ==
    IF n = 0 THEN <<>>
    ELSE LET prev   == SortEntries(d, n - 1)
             e      == d[n]
             before == {i \in DOMAIN prev : ~KeyBefore(e, prev[i])}
             k      == Cardinality(before)
         IN  SubSeq(prev, 1, k) \o <<e>> \o SubSeq(prev, k + 1, Len(prev))

\* sorted(missing): a set of str as the list in ascending order
RECURSIVE SortedStrs(_)
SortedStrs(S) ==
    IF S = {} THEN <<>>
    ELSE LET m == CHOOSE x \in S : \A y \in S \ {x} : StrLess(x, y)
         IN  <<m>> \o SortedStrs(S \ {m})

\* entries[:limit]
Take(seq, limit) == SubSeq(seq, 1, Min(limit, Len(seq)))

\* compute_leaderboard, lines 34-77
ComputeLeaderboard(us, hs, prices, top_n) ==
    LET limit   == ClampTopN(top_n)
        by_user == LoadHoldings(LoadUsers(us, Len(us)), hs, prices, Len(hs))
        entries == Take(SortEntries(by_user, Len(by_user)), limit)
    IN  [i \in DOMAIN entries |->
            [entries[i] EXCEPT !.missing_symbols = SortedStrs(@)]]

\* the lines of the report: the header, a ranked line, the missing-price note
HeaderLine == [kind |-> "header", rank |-> 0, user_id |-> "", symbols |-> <<>>]
RankLine(index, entry) ==
    [kind |-> "rank", rank |-> index, user_id |-> entry.user_id, symbols |-> <<>>]
NoteLine(symbols) == [kind |-> "note", rank |-> 0, user_id |-> "", symbols |-> symbols]

\* mutant: the note is built from every entry handed in
AllMissing_Untruncated(entries, shown) ==
    UNION {{entries[i].missing_symbols[k] : k \in DOMAIN entries[i].missing_symbols} :
           i \in DOMAIN entries}

\* lines 100-111: the symbols collected from the entries shown
AllMissing(entries, shown) ==
    UNION {{shown[i].missing_symbols[k] : k \in DOMAIN shown[i].missing_symbols} :
           i \in DOMAIN shown}

\* format_leaderboard, lines 85-116, as the sequence of the lines it joins
FormatLeaderboard(entries, top_n) ==
    LET limit == ClampTopN(top_n)
        shown == Take(entries, limit)
        all_missing_symbols == AllMissing(entries, shown)
    IN  <<HeaderLine>>
        \o [i \in DOMAIN shown |-> RankLine(i, shown[i])]
        \o (IF all_missing_symbols # {} THEN <<NoteLine(SortedStrs(all_missing_symbols))>>
            ELSE <<>>)

BoardIdle ==
    [pc |-> "idle", users |-> <<>>, holdings |-> <<>>, prices |-> <<>>, top_n |-> 0,
     entries |-> <<>>, fmt_top_n |-> 0, lines |-> <<>>]

\* the inputs a caller hands over
\* (XRP never has a price; of BTC only the quantities at and above the dust
\* threshold are listed)
BoardIds     == {"10", "9"}
BoardUserRow == [user_id : BoardIds, balance : {100, 200}]
BoardHoldRow ==
    {h \in [user_id : BoardIds, symbol : {"BTC", "XRP"}, amount : {-3, 0, 1, 2, 3}] :
        h.symbol = "BTC" => h.amount \in {2, 3}}
BoardPrices  == {<<>>, [s \in {"BTC"} |-> 1000000]}
BoardTopNs   == {0, 51}
FormatTopNs  == {0, 50}
SeqsUpTo(S, n) == UNION {[1..k -> S] : k \in 0..n}

\* a call of compute_leaderboard
BoardCompute(top_n) ==
    /\ board.pc = "input"
    /\ board' = [board EXCEPT
                   !.pc = "computed",
                   !.top_n = top_n,
                   !.entries = ComputeLeaderboard(board.users, board.holdings,
                                                  board.prices, top_n)]
    /\ UNCHANGED <<users, holdings, orders, marketOpen, req, matchCalls, goc, schema, mig,
                   history, cool, dbSessions, sessions, authLog>>

\* a call of format_leaderboard on the entries computed
BoardFormat(top_n) ==
    /\ board.pc = "computed"
    /\ board' = [board EXCEPT
                   !.pc = "formatted",
                   !.fmt_top_n = top_n,
                   !.lines = FormatLeaderboard(board.entries, top_n)]
    /\ UNCHANGED <<users, holdings, orders, marketOpen, req, matchCalls, goc, schema, mig,
                   history, cool, dbSessions, sessions, authLog>>

----------------------------------------------------------------------------
(* Database sessions (database.py get_session, web_server.py get_db) *)

\* trade: the session get_db gave the trade handler in flight is open;
\* goc[c]: the session that caller c's get_or_create_user in progress made is
\* open. A session is followed only until its operation ends.
NoDbSessions == [trade |-> FALSE, goc |-> [c \in Callers |-> FALSE]]

----------------------------------------------------------------------------
(* Command cooldown (leaderboard.py cooldown_allow) *)

\* timestamps are whole seconds 0..MaxTs, where float() is exact
MaxTs == 10

CooldownAllow_Strict(last_ts, now_ts, cooldown_seconds) ==
    IF cooldown_seconds <= 0 THEN TRUE
    ELSE IF last_ts = None THEN TRUE
    ELSE (now_ts - last_ts[1]) > cooldown_seconds

CooldownAllow(last_ts, now_ts, cooldown_seconds) ==
    IF cooldown_seconds <= 0 THEN TRUE
    ELSE IF last_ts = None THEN TRUE
    ELSE (now_ts - last_ts[1]) >= cooldown_seconds

CoolIdle == [pc |-> "idle", last_ts |-> None, now_ts |-> 0, cooldown_seconds |-> 0,
             ret |-> FALSE]

Timestamps == 0..MaxTs
LastTimestamps == {None} \cup {Some(t) : t \in Timestamps}
Cooldowns == (0 - 1)..(MaxTs + 1)

\* a caller asks whether a command may run
CooldownCall(last_ts, now_ts, cooldown_seconds) ==
    /\ cool' = [pc |-> "returned", last_ts |-> last_ts, now_ts |-> now_ts,
                cooldown_seconds |-> cooldown_seconds,
                ret |-> CooldownAllow(last_ts, now_ts, cooldown_seconds)]
    /\ UNCHANGED <<users, holdings, orders, marketOpen, req, matchCalls, goc, schema, mig,
                   history, board, dbSessions, sessions, authLog>>

\* the caller asks again at a later time, nothing having run in between
CooldownLater(now_ts) ==
    /\ cool.pc = "returned"
    /\ now_ts > cool.now_ts
    /\ cool' = [cool EXCEPT !.now_ts = now_ts,
                            !.ret = CooldownAllow(cool.last_ts, now_ts,
                                                  cool.cooldown_seconds)]
    /\ UNCHANGED <<users, holdings, orders, marketOpen, req, matchCalls, goc, schema, mig,
                   history, board, dbSessions, sessions, authLog>>

----------------------------------------------------------------------------
(* Web sessions (web_server.py _sessions, login, logout, get_current_user) *)

MaxTokens == 2      \* logins that succeed

\* _sessions = {}
NoSessions == [t \in {} |-> ""]

\* _sessions[token] = user_id
PutSession(map, token, uid) ==
    [t \in DOMAIN map \cup {token} |-> IF t = token THEN uid ELSE map[t]]

\* mutant: logging out ends every session of the token's user
DelSession_AllOfUser(map, token) ==
    [t \in {x \in DOMAIN map : map[x] # map[token]} |-> map[t]]

\* del _sessions[token]
DelSession(map, token) == [t \in DOMAIN map \ {token} |-> map[t]]

\* secrets.token_urlsafe(32): the n-th value it returns; 32 random bytes, so a
\* value is taken never to repeat
TokenUrlsafe(n) == "tok" \o Digit[n + 1]
Tokens == {TokenUrlsafe(n) : n \in 1..MaxTokens}

\* pwd_context.hash and pwd_context.verify: a hash verifies the password it
\* was made from and no other
Hash(password) == "pbkdf2$" \o password
Verify(password, hash) == hash = Hash(password)

\* `not user.password_hash`: NULL and the empty string are both falsy
HasPassword(user) == user.password_hash # None /\ user.password_hash[1] # ""

\* the zrb_session cookie a client may send: none, empty, a string the server
\* never issued, or any string the server issues at some time
Cookies == {None, Some(""), Some("forged")} \cup {Some(t) : t \in Tokens}

\* `zrb_session and zrb_session in _sessions`
Known(zrb_session) ==
    /\ zrb_session # None
    /\ zrb_session[1] # ""
    /\ zrb_session[1] \in DOMAIN sessions

\* get_current_user, lines 47-50: the user_id, or None for the 401
GetCurrentUser(zrb_session) ==
    IF ~Known(zrb_session) THEN None ELSE Some(sessions[zrb_session[1]])

\* what the log remembers: the user each token was issued to, the tokens
\* presented to logout since they were issued, and the last answer
NoAuthLog == [issued |-> NoSessions, loggedOut |-> {},
              last |-> [op |-> "", user_id |-> "", password |-> "", cookie |-> None,
                        code |-> 0, detail |-> ""]]

LoginUsers == {"alice", "bob", "carol", "dave", "erin"}
Passwords == {"secret", "hunter", ""}
Endpoints == {"me", "assets", "trade"}

\* login, lines 65-85
AuthLogin(uid, password) ==
    /\ LET user == QueryUser(uid)
           n    == Cardinality(DOMAIN authLog.issued) + 1
           fail(detail) ==
               /\ sessions' = sessions
               /\ authLog' = [authLog EXCEPT
                                 !.last = [op |-> "login", user_id |-> uid,
                                           password |-> password, cookie |-> None,
                                           code |-> 400, detail |-> detail]]
       IN  IF user = None \/ ~HasPassword(user[1])
           THEN fail("User not found or password not set")
           ELSE IF ~Verify(password, user[1].password_hash[1])
           THEN fail("Incorrect password")
           ELSE /\ n <= MaxTokens
                /\ sessions' = PutSession(sessions, TokenUrlsafe(n), user[1].user_id)
                /\ authLog' = [issued |-> PutSession(authLog.issued, TokenUrlsafe(n), uid),
                               loggedOut |-> authLog.loggedOut \ {TokenUrlsafe(n)},
                               last |-> [op |-> "login", user_id |-> uid,
                                         password |-> password,
                                         cookie |-> Some(TokenUrlsafe(n)),
                                         code |-> 200, detail |-> ""]]
    /\ UNCHANGED <<users, holdings, orders, marketOpen, req, matchCalls, goc, schema, mig,
                   history, board, cool, dbSessions>>

\* logout, lines 88-93
AuthLogout(zrb_session) ==
    /\ sessions' = IF Known(zrb_session) THEN DelSession(sessions, zrb_session[1])
                   ELSE sessions
    /\ authLog' = [authLog EXCEPT
                      !.loggedOut = IF zrb_session = None THEN @ ELSE @ \cup {zrb_session[1]},
                      !.last = [op |-> "logout", user_id |-> "", password |-> "",
                                cookie |-> zrb_session, code |-> 200, detail |-> ""]]
    /\ UNCHANGED <<users, holdings, orders, marketOpen, req, matchCalls, goc, schema, mig,
                   history, board, cool, dbSessions>>

\* an authenticated endpoint resolving its caller: Depends(get_current_user)
\* of get_me (line 97), get_assets (line 108) and trade (line 129)
AuthAccess(endpoint, zrb_session) ==
    /\ LET user == GetCurrentUser(zrb_session)
       IN  authLog' = [authLog EXCEPT
                         !.last = [op |-> endpoint,
                                   user_id |-> IF user = None THEN "" ELSE user[1],
                                   password |-> "", cookie |-> zrb_session,
                                   code |-> IF user = None THEN 401 ELSE 200,
                                   detail |-> IF user = None THEN "Not authenticated"
                                              ELSE ""]]
    /\ UNCHANGED <<users, holdings, orders, marketOpen, req, matchCalls, goc, schema, mig,
                   history, board, cool, dbSessions, sessions>>

----------------------------------------------------------------------------
(* Specifications *)

\* a database that is open on the current schema and serves requests
MigServing == [MigClosed EXCEPT !.pc = "open", !.run = 1, !.session = TRUE]

\* The gate: a ledger in which get_or_create_user has created alice (bob has
\* no row), a market that opens and closes, and the matcher.
Init ==
    /\ users = <<NewUser("alice")>>
    /\ holdings = <<>>
    /\ orders = <<>>
    /\ marketOpen \in BOOLEAN
    /\ req = Idle
    /\ matchCalls = <<>>
    /\ goc = [c \in Callers |-> GocIdle]
    /\ schema = CurrentSchema
    /\ mig = MigServing
    /\ history = <<>>
    /\ board = BoardIdle
    /\ cool = CoolIdle
    /\ dbSessions = NoDbSessions
    /\ sessions = NoSessions
    /\ authLog = NoAuthLog

Next ==
    \/ \E uid \in TradeUsers, data \in TradeData : TradeSubmit(uid, data)
    \/ TradeMatch
    \/ TradeReturn
    \/ MatcherRun
    \/ MarketToggle

Spec == Init /\ [][Next]_vars

\* get_or_create_user under concurrent callers, on an empty users table or on
\* one that holds alice with a password and a balance she has traded down
InitUser ==
    /\ users \in {<<>>, <<[user_id |-> "alice", password_hash |-> Some("pbkdf2"),
                          balance |-> 2500 * Scale]>>}
    /\ holdings = <<>>
    /\ orders = <<>>
    /\ marketOpen = TRUE
    /\ req = Idle
    /\ matchCalls = <<>>
    /\ goc = [c \in Callers |-> GocIdle]
    /\ schema = CurrentSchema
    /\ mig = MigServing
    /\ history = <<>>
    /\ board = BoardIdle
    /\ cool = CoolIdle
    /\ dbSessions = NoDbSessions
    /\ sessions = NoSessions
    /\ authLog = NoAuthLog

NextUser ==
    \/ \E c \in Callers, id \in GocIds : GocQuery(c, id)
    \/ \E c \in Callers : GocCommit(c)
    \/ \E c \in Callers : GocDone(c)

SpecUser == InitUser /\ [][NextUser]_vars

\* database files a process may find: an empty file, a database whose tables
\* all exist with any of the added columns and any of the indexes missing, and
\* a database from before market_news existed
InitSchemas ==
    {[tables |-> {}, cols |-> {}, idx |-> {}],
     [tables |-> AllTables \ {"market_news"}, cols |-> {}, idx |-> {}]}
    \cup [tables : {AllTables}, cols : SUBSET AddedSet, idx : SUBSET IndexNames]

\* what a table of such a file holds: one row written by the version that
\* made the file, with a value in the added column where the file has it
Stored(sch, t, base, c, v) ==
    IF t \notin sch.tables THEN <<>>
    ELSE IF Col(t, c) \in sch.cols THEN <<Extend(base, c, v)>>
    ELSE <<base>>

InitMig ==
    /\ schema \in InitSchemas
    /\ users = Stored(schema, "users",
                      [user_id |-> "alice", balance |-> 2500 * Scale],
                      "password_hash", Some("pbkdf2"))
    /\ holdings = IF "user_holdings" \in schema.tables
                  THEN <<[id |-> 1, user_id |-> "alice", symbol |-> "BTC", amount |-> 2]>>
                  ELSE <<>>
    /\ orders = Stored(schema, "orders",
                       [id |-> 1, user_id |-> "alice", order_type |-> "BUY",
                        price |-> Some(3000), amount |-> 2, status |-> "FILLED"],
                       "symbol", Some("BTC"))
    /\ history = Stored(schema, "market_history",
                        [id |-> 1, close |-> 4000],
                        "symbol", Some("BTC"))
    /\ marketOpen = TRUE
    /\ req = Idle
    /\ matchCalls = <<>>
    /\ goc = [c \in Callers |-> GocIdle]
    /\ mig = [MigClosed EXCEPT !.faults = MaxFaults]
    /\ board = BoardIdle
    /\ cool = CoolIdle
    /\ dbSessions = NoDbSessions
    /\ sessions = NoSessions
    /\ authLog = NoAuthLog

NextMig ==
    \/ DbOpen
    \/ \E envFails \in BOOLEAN : DbCreateAll(envFails)
    \/ \E pragmaFails \in BOOLEAN, alterFails \in BOOLEAN : MigColumn(pragmaFails, alterFails)
    \/ \E envFails \in BOOLEAN : MigIndex(envFails)
    \/ MigFinish

SpecMig == InitMig /\ [][NextMig]_vars

\* The whole ledger: get_or_create_user, the gate, the matcher and the market
\* on a store that starts without users
InitLedger ==
    /\ users = <<>>
    /\ holdings = <<>>
    /\ orders = <<>>
    /\ marketOpen \in BOOLEAN
    /\ req = Idle
    /\ matchCalls = <<>>
    /\ goc = [c \in Callers |-> GocIdle]
    /\ schema = CurrentSchema
    /\ mig = MigServing
    /\ history = <<>>
    /\ board = BoardIdle
    /\ cool = CoolIdle
    /\ dbSessions = NoDbSessions
    /\ sessions = NoSessions
    /\ authLog = NoAuthLog

\* the requests of the whole-ledger runs: market buys and sells of 2 BTC
LedgerData == {d \in TradeData : d.symbol = "btc" /\ d.amount = 2 /\ d.price = None
                                    /\ d.action \in {"buy", "sell"}}

NextLedger ==
    \/ \E uid \in TradeUsers, data \in LedgerData : TradeSubmit(uid, data)
    \/ TradeMatch
    \/ TradeReturn
    \/ MatcherRun
    \/ MarketToggle
    \/ NextUser

SpecLedger == InitLedger /\ [][NextLedger]_vars

\* the leaderboard functions on every balance list, holdings list and price
\* map within the bounds
InitBoard ==
    /\ users = <<>>
    /\ holdings = <<>>
    /\ orders = <<>>
    /\ marketOpen = TRUE
    /\ req = Idle
    /\ matchCalls = <<>>
    /\ goc = [c \in Callers |-> GocIdle]
    /\ schema = CurrentSchema
    /\ mig = MigServing
    /\ history = <<>>
    /\ \E us \in SeqsUpTo(BoardUserRow, MaxBoardUsers),
          hs \in SeqsUpTo(BoardHoldRow, MaxBoardHoldings),
          prices \in BoardPrices :
          board = [BoardIdle EXCEPT !.pc = "input", !.users = us,
                                    !.holdings = hs, !.prices = prices]
    /\ cool = CoolIdle
    /\ dbSessions = NoDbSessions
    /\ sessions = NoSessions
    /\ authLog = NoAuthLog

NextBoard ==
    \/ \E top_n \in BoardTopNs : BoardCompute(top_n)
    \/ \E top_n \in FormatTopNs : BoardFormat(top_n)

SpecBoard == InitBoard /\ [][NextBoard]_vars

\* cooldown_allow over every last timestamp, time and cooldown
InitCooldown ==
    /\ users = <<>>
    /\ holdings = <<>>
    /\ orders = <<>>
    /\ marketOpen = TRUE
    /\ req = Idle
    /\ matchCalls = <<>>
    /\ goc = [c \in Callers |-> GocIdle]
    /\ schema = CurrentSchema
    /\ mig = MigServing
    /\ history = <<>>
    /\ board = BoardIdle
    /\ cool = CoolIdle
    /\ dbSessions = NoDbSessions
    /\ sessions = NoSessions
    /\ authLog = NoAuthLog

NextCooldown ==
    \/ \E last_ts \in LastTimestamps, now_ts \in Timestamps, cooldown_seconds \in Cooldowns :
          CooldownCall(last_ts, now_ts, cooldown_seconds)
    \/ \E now_ts \in Timestamps : CooldownLater(now_ts)

SpecCooldown == InitCooldown /\ [][NextCooldown]_vars

\* the web layer's sessions: alice and bob have passwords, carol has no
\* password hash, dave has an empty one, erin has no row
AuthUser(uid, hash) == [user_id |-> uid, password_hash |-> hash,
                        balance |-> DefaultBalance * Scale]

InitAuth ==
    /\ users = <<AuthUser("alice", Some(Hash("secret"))),
                 AuthUser("bob", Some(Hash("hunter"))),
                 AuthUser("carol", None),
                 AuthUser("dave", Some(""))>>
    /\ holdings = <<>>
    /\ orders = <<>>
    /\ marketOpen = TRUE
    /\ req = Idle
    /\ matchCalls = <<>>
    /\ goc = [c \in Callers |-> GocIdle]
    /\ schema = CurrentSchema
    /\ mig = MigServing
    /\ history = <<>>
    /\ board = BoardIdle
    /\ cool = CoolIdle
    /\ dbSessions = NoDbSessions
    /\ sessions = NoSessions
    /\ authLog = NoAuthLog

NextAuth ==
    \/ \E uid \in LoginUsers, password \in Passwords : AuthLogin(uid, password)
    \/ \E zrb_session \in Cookies : AuthLogout(zrb_session)
    \/ \E endpoint \in Endpoints, zrb_session \in Cookies : AuthAccess(endpoint, zrb_session)

SpecAuth == InitAuth /\ [][NextAuth]_vars

----------------------------------------------------------------------------
(* Properties of the Order Execution Gate *)

\* a step of the trade handler that takes a request: validation has run
Submitted == req.pc = "idle" /\ req'.pc # "idle"
Admitted  == req.pc = "idle" /\ req'.pc = "committed"
Rejected  == req.pc = "idle" /\ req'.pc = "rejected"

\* C1: a trade request the gate rejects, for any of its reasons, leaves the
\* stored state as it was: no balance and no holding changes, no Order row
\* is added and the matcher is not called, up to the handler's return.
C1_RejectionChangesNothing ==
    [][ /\ Rejected =>
              /\ req'.code # 200
              /\ UNCHANGED <<users, holdings, orders, matchCalls>>
        /\ (req.pc = "rejected" /\ req' # req) =>
              /\ req' = Idle
              /\ UNCHANGED <<users, holdings, orders, matchCalls>> ]_vars

\* a sell for more than the user holds has been rejected
C1_Witness ==
    /\ req.pc = "rejected"
    /\ req.detail = "Insufficient holding"
    /\ \E i \in DOMAIN holdings :
          /\ holdings[i].user_id = req.user_id
          /\ holdings[i].symbol = Upper(req.data.symbol)
          /\ 0 < holdings[i].amount
          /\ holdings[i].amount < req.data.amount

\* the gate's rules in the order the specification lists them, each with the
\* rejection it yields; a later rule is read only when the earlier ones pass
C2_Rules(uid, data) ==
    LET known  == \E i \in DOMAIN users : users[i].user_id = uid
        valid  == Upper(data.symbol) \in MarketSymbols
        funds  == (CHOOSE i \in DOMAIN users : users[i].user_id = uid)
        ref    == IF Truthy(data.price) THEN data.price[1]
                  ELSE MarketPrices[Upper(data.symbol)]
        held   == \E i \in DOMAIN holdings :
                      /\ holdings[i].user_id = uid
                      /\ holdings[i].symbol = Upper(data.symbol)
                      /\ holdings[i].amount >= data.amount
    IN  << [fails |-> ~marketOpen,      code |-> 400, detail |-> "Market is closed"],
           [fails |-> ~known,           code |-> 404, detail |-> "User not found"],
           [fails |-> ~valid,           code |-> 400, detail |-> "Invalid symbol"],
           [fails |-> ~(data.amount > 0), code |-> 400, detail |-> "Amount must be positive"],
           [fails |-> /\ data.action = "buy"
                      /\ known /\ valid
                      /\ users[funds].balance < ref * data.amount * FeeNum,
            code |-> 400, detail |-> "Insufficient balance"],
           [fails |-> data.action = "sell" /\ ~held,
            code |-> 400, detail |-> "Insufficient holding"],
           [fails |-> data.action \notin {"buy", "sell"},
            code |-> 400, detail |-> "Invalid action"] >>

C2_FirstFailure(uid, data) ==
    LET rules  == C2_Rules(uid, data)
        failed == {i \in DOMAIN rules : rules[i].fails}
    IN  IF failed = {} THEN [code |-> Admit.code, detail |-> Admit.detail]
        ELSE LET first == CHOOSE i \in failed : \A j \in failed : i <= j
             IN  [code |-> rules[first].code, detail |-> rules[first].detail]

\* C2: the gate answers every request with the rejection of the first rule
\* that fails, in the order market open, user exists, symbol tradable after
\* upper-casing, amount > 0, funds or holding; only the unknown user is a 404.
C2_FirstFailingRuleWins ==
    [][ Submitted =>
          /\ [code |-> req'.code, detail |-> req'.detail]
                 = C2_FirstFailure(req'.user_id, req'.data)
          /\ (req'.code = 404) = (req'.detail = "User not found")
          /\ req'.code \in {200, 400, 404} ]_vars

\* market closed, unknown user, invalid symbol and a non-positive amount at
\* once: the answer is "market closed"
C2_Witness ==
    /\ req.pc = "rejected"
    /\ req.detail = "Market is closed"
    /\ req.code = 400
    /\ UserIdx(req.user_id) = {}
    /\ Upper(req.data.symbol) \notin MarketSymbols
    /\ req.data.amount <= 0

\* the estimated cost of the specification: the limit price when the request
\* carries one, else the market price, times amount times 1.001
C3_ReferencePrice(data) ==
    IF data.price # None THEN data.price[1] ELSE MarketPrices[Upper(data.symbol)]
C3_EstimatedCost(data) == C3_ReferencePrice(data) * data.amount * FeeNum

\* C3: every buy the gate admits has, at validation, an estimated cost
\* (reference price * amount * 1.001) that is <= the user's balance.
C3_AdmittedBuyIsCovered ==
    [][ (Admitted /\ req'.data.action = "buy") =>
          /\ req'.data.amount > 0
          /\ \E i \in DOMAIN users :
                /\ users[i].user_id = req'.user_id
                /\ C3_EstimatedCost(req'.data) <= users[i].balance ]_vars

\* a limit buy of 3 at 3000 is admitted on a balance of 10000 (cost 9009)
C3_Witness ==
    /\ req.pc = "committed"
    /\ req.data.action = "buy"
    /\ req.data.price = Some(3000)
    /\ req.data.amount = 3
    /\ orders[req.order_id].status = "PENDING"

\* C4: a sell is admitted only when a holding of the user in the upper-cased
\* symbol has amount >= the amount asked; a sell that passes the earlier
\* rules without such a holding is rejected as insufficient holding.
C4_SellNeedsHolding ==
    [][ (Submitted /\ req'.data.action = "sell") =>
          LET enough == \E i \in DOMAIN holdings :
                            /\ holdings[i].user_id = req'.user_id
                            /\ holdings[i].symbol = Upper(req'.data.symbol)
                            /\ holdings[i].amount >= req'.data.amount
              passes == /\ marketOpen
                        /\ UserIdx(req'.user_id) # {}
                        /\ Upper(req'.data.symbol) \in MarketSymbols
                        /\ req'.data.amount > 0
          IN  /\ req'.pc = "committed" => enough
              /\ (passes /\ ~enough) =>
                    req'.pc = "rejected" /\ req'.detail = "Insufficient holding" ]_vars

\* a sell of exactly the amount held is admitted
C4_Witness ==
    /\ req.pc = "committed"
    /\ req.data.action = "sell"
    /\ \E i \in DOMAIN holdings :
          /\ holdings[i].user_id = req.user_id
          /\ holdings[i].symbol = "BTC"
          /\ holdings[i].amount = req.data.amount

\* a step in which the matcher acts: the gate's call of match_single_order,
\* or a run of the matcher outside the handler
MatcherStep == (req.pc = "committed" /\ req'.pc = "matched") \/ req' = req

\* C5: the gate commits every Order row with status PENDING and never writes
\* the status of an Order; a status changes only in a step of the matcher,
\* only from PENDING to FILLED or CANCELLED, and never again after that.
C5_StatusLifecycle ==
    [][ /\ Admitted =>
              /\ Len(orders') = Len(orders) + 1
              /\ orders'[Len(orders')].status = "PENDING"
              /\ orders'[Len(orders')].id = req'.order_id
              /\ \A i \in DOMAIN orders : orders'[i] = orders[i]
        /\ (req' # req /\ ~Admitted /\ ~MatcherStep) => orders' = orders
        /\ Len(orders') >= Len(orders)
        /\ \A i \in DOMAIN orders :
              orders'[i].status # orders[i].status =>
                  /\ orders[i].status = "PENDING"
                  /\ orders'[i].status \in {"FILLED", "CANCELLED"}
                  /\ MatcherStep ]_vars

\* two orders the gate admitted as PENDING have been settled, one each way
C5_Witness ==
    /\ Len(matchCalls) = 2
    /\ \E i, j \in DOMAIN orders :
          orders[i].status = "FILLED" /\ orders[j].status = "CANCELLED"

----------------------------------------------------------------------------
(* Properties of the ledger store *)

\* C7: get_or_create_user is idempotent per user_id: a finished call leaves
\* exactly one row for str(user_id), no user_id ever has two rows, a row the
\* call created has balance 10000.0 and no password and is in the table when
\* the call returns, and a call that finds the user returns the stored row and
\* writes nothing.
C7_GetOrCreateIdempotent ==
    /\ [](/\ \A i, j \in DOMAIN users : users[i].user_id = users[j].user_id => i = j
          /\ \A c \in Callers :
                /\ goc[c].pc \in {"returned", "raised"} =>
                      Cardinality(UserIdx(goc[c].uid)) = 1
                /\ goc[c].pc = "returned" =>
                      /\ goc[c].ret # None
                      /\ goc[c].ret = QueryUser(goc[c].uid)
                      /\ goc[c].created =>
                            /\ goc[c].ret[1].balance = DefaultBalance * Scale
                            /\ goc[c].ret[1].password_hash = None)
    /\ [][\A c \in Callers :
              (goc[c].pc = "idle" /\ goc'[c].pc = "returned") => users' = users]_vars

\* one call has created user "7" from the int 7, a second call with the str
\* "7" has found that row; and alice still has her password and her balance
C7_Witness ==
    /\ Len(users) = 2
    /\ \E c, d \in Callers :
          /\ goc[c].pc = "returned" /\ goc[c].created /\ goc[c].uid = "7"
          /\ goc[d].pc = "returned" /\ ~goc[d].created /\ goc[d].uid = "7"
    /\ \E i \in DOMAIN users :
          /\ users[i].user_id = "alice"
          /\ users[i].balance = 2500 * Scale
          /\ users[i].password_hash # None

\* C8: two first-time callers for the same user_id that both read "no such
\* user" both return the user; no call ends in an exception.
C8_ConcurrentCallersBothReturn ==
    \A c \in Callers : goc[c].pc # "raised"

----------------------------------------------------------------------------
(* Properties of the schema migration *)

C10_OpenConverges ==
    (mig.pc = "open" /\ mig.failed = {}) =>
        /\ schema = CurrentSchema
        /\ mig.session

\* the first run on a database with its tables but none of the added columns
\* and none of the indexes has brought it to the current schema
C10_Witness ==
    /\ mig.pc = "open"
    /\ mig.run = 1
    /\ mig.failed = {}
    /\ mig.start = [tables |-> AllTables, cols |-> {}, idx |-> {}]
    /\ mig.altered = {ColName(AddedColumns[k]) : k \in DOMAIN AddedColumns}
    /\ schema = CurrentSchema

StepNames == {ColName(AddedColumns[k]) : k \in DOMAIN AddedColumns} \cup IndexNames

\* the column or the index of a step is in the live schema
StepApplied(name) ==
    \/ name \in schema.idx
    \/ \E k \in DOMAIN AddedColumns :
          ColName(AddedColumns[k]) = name /\ AddedColumns[k] \in schema.cols

RowsPreserved(old, new) ==
    /\ Len(new) = Len(old)
    /\ \A i \in DOMAIN old :
          /\ \A f \in DOMAIN old[i] : f \in DOMAIN new[i] /\ new[i][f] = old[i][f]
          /\ \A f \in DOMAIN new[i] \ DOMAIN old[i] : new[i][f] = None

\* C12: every step of opening a populated database, failing or not, keeps
\* every stored row with every value it had, a column added by the step
\* reading NULL on those rows; no table, column or index leaves the schema.
C12_MigrationPreservesRows ==
    [][ /\ RowsPreserved(users, users')
        /\ RowsPreserved(orders, orders')
        /\ RowsPreserved(history, history')
        /\ holdings' = holdings
        /\ schema.tables \subseteq schema'.tables
        /\ schema.cols \subseteq schema'.cols
        /\ schema.idx \subseteq schema'.idx ]_vars

\* a database whose users table had no password_hash column is open after a
\* run in which another step failed: the user row has its balance and reads
\* NULL in the new column
C12_Witness ==
    /\ mig.pc = "open"
    /\ Col("users", "password_hash") \notin mig.start.cols
    /\ "users" \in mig.start.tables
    /\ mig.failed # {}
    /\ users = <<[user_id |-> "alice", balance |-> 2500 * Scale,
                  password_hash |-> None]>>
    /\ Len(orders) = 1 /\ orders[1].status = "FILLED"

----------------------------------------------------------------------------
(* Properties of the Valuation / Leaderboard Engine *)

\* compute_leaderboard has returned board.entries
BoardComputed == board.pc = "computed"

\* the ids of the balance list, and the cash the list gives an id last
BoardUids == {board.users[i].user_id : i \in DOMAIN board.users}
CashOf(uid) ==
    LET last == CHOOSE i \in DOMAIN board.users :
                   /\ board.users[i].user_id = uid
                   /\ \A j \in DOMAIN board.users :
                         board.users[j].user_id = uid => j <= i
    IN  board.users[last].balance * QScale

\* the holding rows of a user that are real positions: quantity > 0.0001
RealRows(uid) ==
    {i \in DOMAIN board.holdings :
        board.holdings[i].user_id = uid /\ board.holdings[i].amount > Epsilon}

\* quantity * price summed over the priced real positions of a user
RECURSIVE SumRows(_)
SumRows(rows) ==
    IF rows = {} THEN 0
    ELSE LET i == CHOOSE x \in rows : TRUE
         IN  board.holdings[i].amount * board.prices[board.holdings[i].symbol]
             + SumRows(rows \ {i})
ValueOf(uid) ==
    SumRows({i \in RealRows(uid) : board.holdings[i].symbol \in DOMAIN board.prices})

\* C13: every entry compute_leaderboard returns has total = balance +
\* holdings_value, holdings_value being quantity * price summed over that
\* user's holding rows with quantity > 0.0001 and a priced symbol; dust,
\* non-positive and unpriced rows and rows of users outside the balance list
\* add nothing, so a user without holdings has total = cash.
C13_TotalIsCashPlusHoldings ==
    BoardComputed =>
        \A i \in DOMAIN board.entries :
            LET e == board.entries[i]
            IN  /\ e.user_id \in BoardUids
                /\ e.balance = CashOf(e.user_id)
                /\ e.holdings_value = ValueOf(e.user_id)
                /\ e.total = e.balance + e.holdings_value
                /\ (\A j \in DOMAIN board.holdings :
                       board.holdings[j].user_id # e.user_id) => e.total = e.balance

\* a user with one priced real position and the quantity 0.0001 of the same
\* symbol, valued at the real position alone
C13_Witness ==
    /\ board.pc = "computed"
    /\ board.holdings = <<[user_id |-> "10", symbol |-> "BTC", amount |-> 2],
                          [user_id |-> "10", symbol |-> "BTC", amount |-> 3]>>
    /\ board.prices = [s \in {"BTC"} |-> 1000000]
    /\ \E i \in DOMAIN board.entries :
          /\ board.entries[i].user_id = "10"
          /\ board.entries[i].holdings_value = 3000000
          /\ board.entries[i].total = 100 * QScale + 3000000

\* the total of an id of the balance list, returned or not
TotalOf(uid) == CashOf(uid) + ValueOf(uid)
RanksBefore(u, v) ==
    \/ TotalOf(u) > TotalOf(v)
    \/ TotalOf(u) = TotalOf(v) /\ StrLess(u, v)

\* C14: the entries are in order of total descending, ties by user_id
\* ascending, and no user left out by the truncation ranks before a user
\* that is returned.
C14_OrderedByTotalThenId ==
    BoardComputed =>
        /\ \A i \in DOMAIN board.entries : i < Len(board.entries) =>
              LET a == board.entries[i]
                  b == board.entries[i + 1]
              IN  \/ a.total > b.total
                  \/ a.total = b.total /\ StrLess(a.user_id, b.user_id)
        /\ \A u \in BoardUids :
              (\A i \in DOMAIN board.entries : board.entries[i].user_id # u) =>
                  \A i \in DOMAIN board.entries :
                      ~RanksBefore(u, board.entries[i].user_id)

\* the user listed second with the smaller balance comes first by the value
\* of a holding, and of two users with equal totals "10" comes before "9"
C14_Witness ==
    /\ board.pc = "computed"
    /\ Len(board.entries) = 2
    /\ \/ /\ board.entries[1].total = board.entries[2].total
          /\ board.entries[1].user_id = "10"
          /\ board.entries[2].user_id = "9"
          /\ board.users[1].user_id = "9"
       \/ /\ board.entries[1].balance < board.entries[2].balance
          /\ board.entries[1].total > board.entries[2].total
          /\ board.users[2].user_id = board.entries[1].user_id

\* C15: missing_symbols of an entry is the ascending, duplicate-free list of
\* the symbols of that user's holdings with quantity > 0.0001 and no price;
\* a dust or non-positive holding adds no symbol.
C15_MissingSymbolsExact ==
    BoardComputed =>
        \A i \in DOMAIN board.entries :
            LET e  == board.entries[i]
                ms == e.missing_symbols
            IN  /\ {ms[k] : k \in DOMAIN ms}
                      = {board.holdings[j].symbol :
                            j \in {r \in RealRows(e.user_id) :
                                     board.holdings[r].symbol \notin DOMAIN board.prices}}
                /\ \A k \in DOMAIN ms : k < Len(ms) => StrLess(ms[k], ms[k + 1])

\* an unpriced real position next to an unpriced dust holding of another
\* symbol: only the first symbol is listed
C15_Witness ==
    /\ board.pc = "computed"
    /\ board.prices = <<>>
    /\ board.holdings = <<[user_id |-> "9", symbol |-> "XRP", amount |-> 1],
                          [user_id |-> "9", symbol |-> "BTC", amount |-> 3]>>
    /\ \E i \in DOMAIN board.entries :
          /\ board.entries[i].user_id = "9"
          /\ board.entries[i].missing_symbols = <<"BTC">>

ClampInputs == (-3 .. 60) \cup {1000}

\* C16: the clamp maps every integer into 1..50 (0 and negatives to 1,
\* values above 50 to 50, the others to themselves) and is idempotent, and
\* compute_leaderboard returns min(distinct ids of the balance list,
\* clamp(top_n)) entries. (The clamp does not read the state: its part is
\* evaluated in the states with empty lists.)
C16_ClampAndCount ==
    /\ (board.users = <<>> /\ board.holdings = <<>>) => \A n \in ClampInputs :
          /\ ClampTopN(n) \in 1 .. 50
          /\ n <= 0 => ClampTopN(n) = 1
          /\ n > 50 => ClampTopN(n) = 50
          /\ n \in 1 .. 50 => ClampTopN(n) = n
          /\ ClampTopN(ClampTopN(n)) = ClampTopN(n)
    /\ BoardComputed =>
          Len(board.entries) = Min(Cardinality(BoardUids), ClampTopN(board.top_n))

\* top_n = 0 on a list of two users returns one entry
C16_Witness ==
    /\ board.pc = "computed"
    /\ board.top_n = 0
    /\ Cardinality(BoardUids) = 2
    /\ Len(board.entries) = 1

\* the entries format_leaderboard shows
ShownCount == Min(Len(board.entries), ClampTopN(board.fmt_top_n))
ShownMissing ==
    UNION {{board.entries[i].missing_symbols[k] :
               k \in DOMAIN board.entries[i].missing_symbols} : i \in 1 .. ShownCount}

\* C17: the report is the header line, one ranked line per shown entry with
\* ranks 1..k in list order, and a note if and only if a shown entry misses
\* a price; the note lists the symbols the shown entries miss, ascending.
C17_ReportLines ==
    board.pc = "formatted" =>
        LET lines == board.lines
            noted == ShownMissing # {}
        IN  /\ Len(lines) = 1 + ShownCount + (IF noted THEN 1 ELSE 0)
            /\ lines[1].kind = "header"
            /\ \A i \in 1 .. ShownCount :
                  /\ lines[1 + i].kind = "rank"
                  /\ lines[1 + i].rank = i
                  /\ lines[1 + i].user_id = board.entries[i].user_id
            /\ noted =>
                  LET note == lines[Len(lines)]
                  IN  /\ note.kind = "note"
                      /\ {note.symbols[k] : k \in DOMAIN note.symbols} = ShownMissing
                      /\ \A k \in DOMAIN note.symbols : k < Len(note.symbols) =>
                            StrLess(note.symbols[k], note.symbols[k + 1])

\* two entries that each miss a price, one shown: the note names the symbol
\* of the shown entry only
C17_Witness ==
    /\ board.pc = "formatted"
    /\ Len(board.entries) = 2
    /\ board.entries[1].missing_symbols = <<"XRP">>
    /\ board.entries[2].missing_symbols = <<"BTC">>
    /\ ShownCount = 1
    /\ Len(board.lines) = 3
    /\ board.lines[3].symbols = <<"XRP">>

----------------------------------------------------------------------------
(* Properties of the buy check *)

\* a step in which the gate takes a buy and reaches its funds check
BuyChecked ==
    /\ Submitted
    /\ req'.data.action = "buy"
    /\ req'.detail \in {"Insufficient balance", "Order submitted"}

\* the balance of the user a request names, as the gate reads it
BalanceOf(uid) == users[Lowest(UserIdx(uid))].balance

\* the reference price as the specification gives it: the limit price of a
\* request that carries one, the market price of the symbol otherwise
C18_ReferencePrice(data) ==
    IF data.price # None THEN data.price[1] ELSE MarketPrices[Upper(data.symbol)]

\* C18: in the buy check the reference price is the limit price whenever the
\* request carries one, a limit of 0 included, and the market price only
\* when it carries none: a buy is rejected for funds exactly when the
\* balance is below that reference price * amount * 1.001.
C18_LimitPriceIsReference ==
    [][ BuyChecked =>
          ( req'.detail = "Insufficient balance"
              <=> BalanceOf(req'.user_id)
                    < C18_ReferencePrice(req'.data) * req'.data.amount * FeeNum ) ]_vars

\* the cost the gate compared with the balance
C19_Cost(data) == EstPrice(data, Upper(data.symbol)) * data.amount * FeeNum

----------------------------------------------------------------------------
(* Properties of the ledger as a whole *)

UserIds == {users[i].user_id : i \in DOMAIN users}

\* C20: in every state the ledger reaches through get_or_create_user, the
\* gate and the settlement of its orders, the user_id of every Order row and
\* of every Holding row is the user_id of a User row, and no step removes a
\* User, Holding or Order row.
C20_ReferentialIntegrity ==
    /\ [](/\ \A i \in DOMAIN orders : orders[i].user_id \in UserIds
          /\ \A i \in DOMAIN holdings : holdings[i].user_id \in UserIds)
    /\ [][ /\ Len(users') >= Len(users)
           /\ Len(holdings') >= Len(holdings)
           /\ Len(orders') >= Len(orders)
           /\ \A i \in DOMAIN users : users'[i].user_id = users[i].user_id
           /\ \A i \in DOMAIN holdings : holdings'[i].user_id = holdings[i].user_id
           /\ \A i \in DOMAIN orders : orders'[i].user_id = orders[i].user_id ]_vars

\* alice, created by get_or_create_user, has an order and a holding, next to
\* a second user, and a request of bob, who has no row, has been refused
C20_Witness ==
    /\ Len(users) = 2
    /\ \E i \in DOMAIN orders : orders[i].user_id = "alice"
    /\ \E i \in DOMAIN holdings : holdings[i].user_id = "alice"
    /\ req.pc = "rejected" /\ req.user_id = "bob" /\ req.code = 404

----------------------------------------------------------------------------
(* Properties of the command cooldown *)

CoolReturned == cool.pc = "returned"

\* C21: cooldown_allow returns true whenever the cooldown is <= 0, true
\* whenever last_ts is None, and otherwise true exactly when now_ts - last_ts
\* >= cooldown; and a caller that was allowed and asks again later, with the
\* same last_ts and cooldown, is allowed again.
C21_CooldownContract ==
    /\ [](CoolReturned =>
            /\ cool.cooldown_seconds <= 0 => cool.ret
            /\ cool.last_ts = None => cool.ret
            /\ (cool.cooldown_seconds > 0 /\ cool.last_ts # None) =>
                   (cool.ret <=> cool.now_ts - cool.last_ts[1] >= cool.cooldown_seconds))
    /\ [][ ( /\ CoolReturned /\ cool'.pc = "returned"
             /\ cool'.last_ts = cool.last_ts
             /\ cool'.cooldown_seconds = cool.cooldown_seconds
             /\ cool'.now_ts >= cool.now_ts
             /\ cool.ret )
           => cool'.ret ]_vars

\* C21 happens: the elapsed time equals the cooldown exactly and the call is
\* allowed
C21_Witness ==
    /\ CoolReturned
    /\ cool.last_ts = Some(7)
    /\ cool.now_ts = 10
    /\ cool.cooldown_seconds = 3
    /\ cool.ret

----------------------------------------------------------------------------
(* Properties of the hand-off to the matcher *)

CallsFor(oid) == {i \in 1..Len(matchCalls) : matchCalls[i] = oid}
Returned == req.pc # "idle" /\ req'.pc = "idle"

\* C22: an admitted trade commits its Order row with status PENDING before
\* match_single_order is called; match_single_order is called exactly once,
\* with that order's id, by the time the handler returns; it is never called
\* with an id that has no committed row, and never for a rejected request.
C22_HandOffOrderedAndExact ==
    /\ [][ Admitted =>
             /\ orders' = Append(orders, orders'[Len(orders')])
             /\ req'.order_id = Len(orders')
             /\ orders'[req'.order_id].id = req'.order_id
             /\ orders'[req'.order_id].status = "PENDING"
             /\ matchCalls' = matchCalls
             /\ CallsFor(req'.order_id) = {} ]_vars
    /\ [][ matchCalls' # matchCalls =>
             /\ req.pc = "committed" /\ req.code = 200
             /\ req.order_id \in 1..Len(orders)
             /\ orders[req.order_id].id = req.order_id
             /\ CallsFor(req.order_id) = {}
             /\ matchCalls' = Append(matchCalls, req.order_id) ]_vars
    /\ [][ Returned =>
             IF req.code = 200
             THEN Cardinality(CallsFor(req.order_id)) = 1
             ELSE req.pc = "rejected" /\ CallsFor(req.order_id) = {} ]_vars
    /\ [](\A i \in 1..Len(matchCalls) : matchCalls[i] \in 1..Len(orders))

\* C22 happens: two trades were admitted, each was handed to the matcher
\* once, and the handler of the second is about to return
C22_Witness ==
    /\ req.pc = "matched"
    /\ req.order_id = 2
    /\ matchCalls = <<1, 2>>
    /\ Len(orders) = 2

----------------------------------------------------------------------------
(* Properties of the database sessions *)

\* the part of C23 about get_db: the trade handler's session is open exactly
\* while the handler runs, and closed when it returns or raises
HandlerSessionClosed ==
    /\ [](dbSessions.trade <=> req.pc # "idle")
    /\ [][Returned => ~dbSessions'.trade]_vars

GocEnds(c, exit) == goc[c].pc = exit /\ goc'[c].pc = "idle"

\* C23: when a call of get_or_create_user ends with the commit of the new
\* user refused, the session the call made is no longer open.
C23_SessionClosedWhenCommitFails ==
    [][\A c \in Callers : GocEnds(c, "raised") => ~dbSessions.goc[c]]_vars

\* C23, for a call that returns: when get_or_create_user returns, the session
\* the call made is no longer open
SessionClosedOnReturn ==
    [][\A c \in Callers : GocEnds(c, "returned") => ~dbSessions.goc[c]]_vars

----------------------------------------------------------------------------
(* Properties of the web sessions *)

\* a token some login issued that has not been presented to logout since
Live(zrb_session) ==
    /\ zrb_session # None
    /\ zrb_session[1] \in DOMAIN authLog.issued
    /\ zrb_session[1] \notin authLog.loggedOut

Answered(op) == authLog' # authLog /\ authLog'.last.op = op
TokensOf(uid) == {t \in DOMAIN sessions : sessions[t] = uid}

\* C24: the authenticated endpoints accept a token exactly when a login that
\* found the user, found a password hash and verified the password issued it
\* and it has not been presented to logout since; an accepted token resolves
\* to the user it was issued for; a failed login adds no token; and logout
\* removes the presented token and no other.
C24_SessionMapSound ==
    /\ [](\A c \in Cookies :
            /\ GetCurrentUser(c) # None <=> Live(c)
            /\ Live(c) => GetCurrentUser(c) = Some(authLog.issued[c[1]]))
    /\ [][ \A e \in Endpoints : Answered(e) =>
             LET c == authLog'.last.cookie
             IN  /\ authLog'.last.code = IF Live(c) THEN 200 ELSE 401
                 /\ Live(c) => authLog'.last.user_id = authLog.issued[c[1]]
                 /\ sessions' = sessions ]_vars
    /\ [][ Answered("login") =>
             LET l == authLog'.last
                 u == QueryUser(l.user_id)
             IN  IF l.code = 200
                 THEN /\ u # None
                      /\ HasPassword(u[1])
                      /\ u[1].password_hash[1] = Hash(l.password)
                      /\ l.cookie[1] \notin DOMAIN sessions
                      /\ sessions' = PutSession(sessions, l.cookie[1], l.user_id)
                 ELSE sessions' = sessions ]_vars
    /\ [][ Answered("logout") =>
             LET c == authLog'.last.cookie
             IN  /\ \A t \in DOMAIN sessions :
                        (c = None \/ t # c[1]) =>
                            t \in DOMAIN sessions' /\ sessions'[t] = sessions[t]
                 /\ DOMAIN sessions' \subseteq DOMAIN sessions
                 /\ c # None => c[1] \notin DOMAIN sessions' ]_vars

\* C24 happens: alice logged in twice and logged one token out; the endpoints
\* have just accepted the other
C24_Witness ==
    /\ authLog.issued = PutSession(PutSession(NoSessions, "tok1", "alice"), "tok2", "alice")
    /\ authLog.loggedOut = {"tok1"}
    /\ sessions = PutSession(NoSessions, "tok2", "alice")
    /\ authLog.last.op = "trade"
    /\ authLog.last.cookie = Some("tok2")
    /\ authLog.last.code = 200
    /\ authLog.last.user_id = "alice"

====
